---- MODULE Spec2Model ----
(***************************************************************************)
(* Model of check_solidity_order.py: parse_solidity_file (the section      *)
(* classifier) and reorder_solidity_file (the canonical reassembler), and  *)
(* of check_solutions.py (the declaration comparator), which is a program  *)
(* of its own: its variables are pairs, nxt and issues.                    *)
(*                                                                         *)
(* A line of text is the sequence of its whitespace-separated tokens; the  *)
(* token "  " stands for leading or trailing whitespace (indentation), so  *)
(* that str.strip() has something to remove. The empty line '' is << >>.   *)
(* The predicates of the scanner (startswith, re.match, count, `in`,       *)
(* endswith) are evaluated on the tokens through the tables below, which   *)
(* list, for the tokens of the vocabulary, those with the prefix or the    *)
(* substring in question.                                                  *)
(*                                                                         *)
(* The sections hold 0-based line indices instead of line texts: the text  *)
(* of an entry is lines[index + 1], so the text the code stores is         *)
(* recovered by TextOf; an inserted separator '' is the entry Sep.         *)
(***************************************************************************)
EXTENDS Integers, Sequences, FiniteSets, Bags, TLC

VARIABLES
    lines,        \* content.split('\n') of the pass being run
    i,            \* index of the scan loop (0-based)
    brace_count,  \* running depth
    in_contract,  \* insideContractBody
    sections,     \* category -> sequence of line indices
    result,       \* the list built by reorder_solidity_file (indices, Sep)
    pc,           \* "scan", "parsed" (classifier returned), "done"
    pass,         \* 1 for the run on the input, 2 for the run on its output
    first,        \* the text of the output of pass 1 (set when pass 2 starts)
    runs,         \* how many times the caller applies reorder_solidity_file
    dispatched,   \* history: one record per iteration of the outer loop
    pairs,        \* check_solutions.py: the (user file, solution file) pairs
    nxt,          \* check_solutions.py: how many pairs main has gone through
    issues        \* check_solutions.py: the list of issues of main

vars == <<lines, i, brace_count, in_contract, sections, result, pc, pass,
          first, runs, dispatched, pairs, nxt, issues>>

-----------------------------------------------------------------------------
(* Bounds of the model *)

\* longest file, in lines, given to the declaration comparator
MaxFile == 2
\* longest enumerated text, and longest enumerated contract body, in lines
MaxLines == 3
\* the same for the specifications that run two passes or state fairness
MaxLinesSmall == 2

-----------------------------------------------------------------------------
(* Text: tokens and the string predicates of the scanner *)

Blank == << >>
Sep == -1

WS == {"  "}

Min(S) == CHOOSE x \in S : \A y \in S : x <= y
Max(S) == CHOOSE x \in S : \A y \in S : x >= y

\* str.strip(): the line without its leading and trailing whitespace
strip(line) ==
    LET nz == {k \in 1..Len(line) : line[k] \notin WS}
    IN  IF nz = {} THEN << >> ELSE SubSeq(line, Min(nz), Max(nz))

\* str.count(ch): occurrences of the one-character token ch
count(line, ch) == Cardinality({k \in 1..Len(line) : line[k] = ch})

\* count('{') - count('}')
BraceDelta(line) == count(line, "{") - count(line, "}")

\* tokens that start with a word character (\w)
WordStart ==
    {"Foo", "E", "S", "A", "Bad", "Deposit", "uint256", "a", "b", "bar", "baz",
     "f", "publicCap", "X", "x", "y", "owner", "address", "public", "private",
     "internal", "external", "constant", "immutable", "payable", "MIT", "note",
     "solidity", "SPDX-License-Identifier:", "_", "1", "contract", "enum",
     "struct", "error", "event", "modifier", "function", "constructor",
     "receive", "import", "pragma", "abstract", "interface", "library",
     "withdraw", "require", "data", "fallback"}

\* tokens made of word characters only (\w+ followed by whitespace)
WordOnly == WordStart \ {"SPDX-License-Identifier:"}

\* tokens with the given prefix
PrefixSPDX == {"SPDX-License-Identifier:"}
PrefixSolidity == {"solidity"}
PrefixContractKind == {"contract", "interface", "library"}
PrefixContract == {"contract"}
PrefixParen == {"("}
PrefixComment == {"//"}
PrefixType == {"uint256", "address"}
PrefixVisibility == {"public", "private", "internal", "publicCap"}
SuffixSemi == {";"}

\* tokens containing the given substring
Containing(word) ==
    CASE word = "external" -> {"external"}
      [] word = "public" -> {"public", "publicCap"}
      [] word = "internal" -> {"internal"}
      [] word = "private" -> {"private"}
      [] word = "constant" -> {"constant"}
      [] word = "immutable" -> {"immutable"}

\* word in text
HasSub(line, word) == \E k \in 1..Len(line) : line[k] \in Containing(word)

\* stripped.startswith('// SPDX') or stripped.startswith('pragma solidity')
IsSpdxPragma(s) ==
    /\ Len(s) >= 2
    /\ \/ s[1] = "//" /\ s[2] \in PrefixSPDX
       \/ s[1] = "pragma" /\ s[2] \in PrefixSolidity

\* stripped.startswith('import ')
IsImport(s) == Len(s) >= 2 /\ s[1] = "import"

\* re.match(r'^(contract|interface|library|abstract contract)', stripped)
IsContractDecl(s) ==
    /\ Len(s) >= 1
    /\ \/ s[1] \in PrefixContractKind
       \/ Len(s) >= 2 /\ s[1] = "abstract" /\ s[2] \in PrefixContract

\* re.match(r'^\s*kw\s+\w+', stripped)
IsKeywordName(s, kw) == Len(s) >= 2 /\ s[1] = kw /\ s[2] \in WordStart

\* re.match(r'^\s*kw\s*\(', stripped)
IsKeywordParen(s, kw) == Len(s) >= 2 /\ s[1] = kw /\ s[2] \in PrefixParen

\* stripped.startswith('//')
IsComment(s) == Len(s) >= 1 /\ s[1] \in PrefixComment

\* the two patterns of the state-variable rule
IsStateVarShape(s) ==
    \/ Len(s) >= 1 /\ s[1] \in PrefixType
    \/ Len(s) >= 2 /\ s[1] \in WordOnly /\ s[2] \in PrefixVisibility

\* lines[i].strip().endswith(';')
EndsSemi(line) ==
    LET s == strip(line) IN Len(s) >= 1 /\ s[Len(s)] \in SuffixSemi

-----------------------------------------------------------------------------
(* Categories *)

Categories ==
    {"spdx_pragma", "imports", "contract_declaration", "enums", "structs",
     "constants", "immutables", "state_vars", "custom_errors", "events",
     "modifiers", "constructor", "receive_fallback", "external_functions",
     "public_functions", "internal_functions", "private_functions", "other"}

EmptySections == [c \in Categories |-> << >>]

\* Dispatch with the state-variable test moved before the constant test
Dispatch_StateVarFirst(s, inC) ==
    IF IsSpdxPragma(s) THEN "spdx_pragma"
    ELSE IF IsImport(s) THEN "imports"
    ELSE IF IsContractDecl(s) THEN "contract_declaration"
    ELSE IF ~inC THEN "not_in_contract"
    ELSE IF IsKeywordName(s, "enum") THEN "enums"
    ELSE IF IsKeywordName(s, "struct") THEN "structs"
    ELSE IF IsKeywordName(s, "error") THEN "custom_errors"
    ELSE IF IsKeywordName(s, "event") THEN "events"
    ELSE IF IsKeywordName(s, "modifier") THEN "modifiers"
    ELSE IF IsKeywordParen(s, "constructor") THEN "constructor"
    ELSE IF IsKeywordParen(s, "receive") \/ IsKeywordParen(s, "fallback")
         THEN "receive_fallback"
    ELSE IF IsKeywordName(s, "function") THEN "functions"
    ELSE IF IsStateVarShape(s) THEN "state_vars"
    ELSE IF HasSub(s, "constant") /\ ~IsComment(s) THEN "constants"
    ELSE IF HasSub(s, "immutable") /\ ~IsComment(s) THEN "immutables"
    ELSE "other"

\* Dispatch with the constant test moved before the function test
Dispatch_ConstantFirst(s, inC) ==
    IF IsSpdxPragma(s) THEN "spdx_pragma"
    ELSE IF IsImport(s) THEN "imports"
    ELSE IF IsContractDecl(s) THEN "contract_declaration"
    ELSE IF ~inC THEN "not_in_contract"
    ELSE IF IsKeywordName(s, "enum") THEN "enums"
    ELSE IF IsKeywordName(s, "struct") THEN "structs"
    ELSE IF IsKeywordName(s, "error") THEN "custom_errors"
    ELSE IF IsKeywordName(s, "event") THEN "events"
    ELSE IF IsKeywordName(s, "modifier") THEN "modifiers"
    ELSE IF IsKeywordParen(s, "constructor") THEN "constructor"
    ELSE IF IsKeywordParen(s, "receive") \/ IsKeywordParen(s, "fallback")
         THEN "receive_fallback"
    ELSE IF HasSub(s, "constant") /\ ~IsComment(s) THEN "constants"
    ELSE IF IsKeywordName(s, "function") THEN "functions"
    ELSE IF HasSub(s, "immutable") /\ ~IsComment(s) THEN "immutables"
    ELSE IF IsStateVarShape(s) THEN "state_vars"
    ELSE "other"

\* the rule of the outer loop that takes the line: the first whose test holds
Dispatch(s, inC) ==
    IF IsSpdxPragma(s) THEN "spdx_pragma"
    ELSE IF IsImport(s) THEN "imports"
    ELSE IF IsContractDecl(s) THEN "contract_declaration"
    ELSE IF ~inC THEN "not_in_contract"
    ELSE IF IsKeywordName(s, "enum") THEN "enums"
    ELSE IF IsKeywordName(s, "struct") THEN "structs"
    ELSE IF IsKeywordName(s, "error") THEN "custom_errors"
    ELSE IF IsKeywordName(s, "event") THEN "events"
    ELSE IF IsKeywordName(s, "modifier") THEN "modifiers"
    ELSE IF IsKeywordParen(s, "constructor") THEN "constructor"
    ELSE IF IsKeywordParen(s, "receive") \/ IsKeywordParen(s, "fallback")
         THEN "receive_fallback"
    ELSE IF IsKeywordName(s, "function") THEN "functions"
    ELSE IF HasSub(s, "constant") /\ ~IsComment(s) THEN "constants"
    ELSE IF HasSub(s, "immutable") /\ ~IsComment(s) THEN "immutables"
    ELSE IF IsStateVarShape(s) THEN "state_vars"
    ELSE "other"

\* while i < len(lines) and brace_count > 0: append, count braces, i += 1
RECURSIVE BlockScan(_, _, _)
BlockScan(ls, j, bc) ==
    IF j < Len(ls) /\ bc > 0
    THEN BlockScan(ls, j + 1, bc + BraceDelta(ls[j + 1]))
    ELSE [i |-> j, bc |-> bc]

\* while i < len(lines) and not lines[i].strip().endswith(';'): append, i += 1
RECURSIVE SemiScan(_, _)
SemiScan(ls, j) ==
    IF j < Len(ls) /\ ~EndsSemi(ls[j + 1]) THEN SemiScan(ls, j + 1) ELSE j

\* the indices a..b-1 in order
Range(a, b) == [k \in 1..(b - a) |-> a + k - 1]

\* sections[cat].extend(the lines a..b-1)
Extend(secs, cat, a, b) == [secs EXCEPT ![cat] = @ \o Range(a, b)]

\* Visibility with the test of the signature line only
Visibility_SignatureOnly(ls, a, b) ==
    LET has(w) == HasSub(ls[a + 1], w)
    IN  IF has("external") THEN "external_functions"
        ELSE IF has("public") THEN "public_functions"
        ELSE IF has("internal") THEN "internal_functions"
        ELSE IF has("private") THEN "private_functions"
        ELSE "public_functions"

\* the category of an accumulated function block
Visibility(ls, a, b) ==
    LET has(w) == \E k \in a..(b - 1) : HasSub(ls[k + 1], w)
    IN  IF has("external") THEN "external_functions"
        ELSE IF has("public") THEN "public_functions"
        ELSE IF has("internal") THEN "internal_functions"
        ELSE IF has("private") THEN "private_functions"
        ELSE "public_functions"

-----------------------------------------------------------------------------
(* The scan loop of parse_solidity_file: one action per branch *)

line == lines[i + 1]
stripped == strip(line)
Scanning == pc = "scan" /\ i < Len(lines)
Rule == Dispatch(stripped, in_contract)

Note(rule, next) ==
    dispatched' = Append(dispatched,
        [idx |-> i, rule |-> rule, inC |-> in_contract, depth |-> brace_count,
         next |-> next])

\* Single without `i += 1`
Single_NoAdvance(rule, cat) ==
    /\ pc = "scan" /\ i < Len(lines)
    /\ Dispatch(strip(lines[i + 1]), in_contract) = rule
    /\ sections' = [sections EXCEPT ![cat] = Append(@, i)]
    /\ i' = i
    /\ dispatched' = Append(dispatched,
           [idx |-> i, rule |-> rule, inC |-> in_contract,
            depth |-> brace_count, next |-> i])
    /\ UNCHANGED <<lines, result, pc, pass, first, runs, pairs, nxt, issues>>

\* a branch that appends the one line and continues
Single(rule, cat) ==
    /\ Scanning
    /\ Rule = rule
    /\ sections' = Extend(sections, cat, i, i + 1)
    /\ i' = i + 1
    /\ Note(rule, i + 1)
    /\ UNCHANGED <<lines, result, pc, pass, first, runs, pairs, nxt, issues>>

SpdxPragma == Single("spdx_pragma", "spdx_pragma") /\ UNCHANGED <<brace_count, in_contract>>

Imports == Single("imports", "imports") /\ UNCHANGED <<brace_count, in_contract>>

ContractDeclaration ==
    /\ Single("contract_declaration", "contract_declaration")
    /\ in_contract' = TRUE
    /\ brace_count' = brace_count + BraceDelta(stripped)

NotInContract == Single("not_in_contract", "other") /\ UNCHANGED <<brace_count, in_contract>>

\* Block that stores the lines only when the block was closed
Block_ClosedOnly(rule) ==
    LET scan == BlockScan(lines, i + 1,
                          brace_count + BraceDelta(strip(lines[i + 1])))
    IN  /\ pc = "scan" /\ i < Len(lines)
        /\ Dispatch(strip(lines[i + 1]), in_contract) = rule
        /\ sections' = IF scan.bc > 0 THEN sections
                       ELSE Extend(sections, rule, i, scan.i)
        /\ i' = scan.i
        /\ brace_count' = scan.bc
        /\ dispatched' = Append(dispatched,
               [idx |-> i, rule |-> rule, inC |-> in_contract,
                depth |-> brace_count, next |-> scan.i])
        /\ UNCHANGED <<lines, in_contract, result, pc, pass, first, runs, pairs, nxt, issues>>

\* a brace-scoped branch: enum, struct, modifier, constructor, receive/fallback
Block(rule) ==
    LET scan == BlockScan(lines, i + 1, brace_count + BraceDelta(stripped))
    IN  /\ Scanning
        /\ Rule = rule
        /\ sections' = Extend(sections, rule, i, scan.i)
        /\ i' = scan.i
        /\ brace_count' = scan.bc
        /\ Note(rule, scan.i)
        /\ UNCHANGED <<lines, in_contract, result, pc, pass, first, runs, pairs, nxt, issues>>

Enums == Block("enums")
Structs == Block("structs")
Modifiers == Block("modifiers")
Constructor == Block("constructor")
ReceiveFallback == Block("receive_fallback")

\* Semi without `if i < len(lines): append(lines[i])`
Semi_NoLast(rule) ==
    LET stop == SemiScan(lines, i + 1)
    IN  /\ Scanning
        /\ Rule = rule
        /\ sections' = Extend(sections, rule, i, stop)
        /\ i' = stop + 1
        /\ brace_count' = brace_count + BraceDelta(stripped)
        /\ Note(rule, stop + 1)
        /\ UNCHANGED <<lines, in_contract, result, pc, pass, first, runs, pairs, nxt, issues>>

\* a semicolon-terminated branch: error, event
Semi(rule) ==
    LET stop == SemiScan(lines, i + 1)
        end == IF stop < Len(lines) THEN stop + 1 ELSE stop
    IN  /\ Scanning
        /\ Rule = rule
        /\ sections' = Extend(sections, rule, i, end)
        /\ i' = stop + 1
        /\ brace_count' = brace_count + BraceDelta(stripped)
        /\ Note(rule, stop + 1)
        /\ UNCHANGED <<lines, in_contract, result, pc, pass, first, runs, pairs, nxt, issues>>

CustomErrors == Semi("custom_errors")
Events == Semi("events")

Functions ==
    LET bc == brace_count + BraceDelta(stripped)
        scan == BlockScan(lines, i + 1, bc)
    IN  /\ Scanning
        /\ Rule = "functions"
        /\ sections' = Extend(sections, Visibility(lines, i, scan.i), i, scan.i)
        /\ i' = scan.i
        /\ brace_count' = bc
        /\ Note("functions", scan.i)
        /\ UNCHANGED <<lines, in_contract, result, pc, pass, first, runs, pairs, nxt, issues>>

\* BodyLine that leaves the contract when the depth is back to 0
BodyLine_LeavesAtZero(rule) ==
    /\ Single(rule, rule)
    /\ brace_count' = brace_count + BraceDelta(strip(lines[i + 1]))
    /\ in_contract' = (brace_count' > 0)

\* the one-line branches inside the contract body
BodyLine(rule) ==
    /\ Single(rule, rule)
    /\ brace_count' = brace_count + BraceDelta(stripped)
    /\ UNCHANGED in_contract

Constants == BodyLine("constants")
Immutables == BodyLine("immutables")
StateVars == BodyLine("state_vars")
Other == BodyLine("other")

\* the loop ends, parse_solidity_file returns sections
Return ==
    /\ pc = "scan"
    /\ i >= Len(lines)
    /\ pc' = "parsed"
    /\ UNCHANGED <<lines, i, brace_count, in_contract, sections, result, pass,
                   first, runs, dispatched, pairs, nxt, issues>>

-----------------------------------------------------------------------------
(* reorder_solidity_file *)

\* Emit without the last `result.extend(sections['other'])`
Emit_DropOther(r, secs, cat, sep) ==
    IF cat = "other" THEN r
    ELSE r \o secs[cat] \o (IF sep /\ secs[cat] # << >> THEN <<Sep>> ELSE << >>)

\* Emit with the separator appended whether the section is empty or not
Emit_AlwaysSep(r, secs, cat, sep) ==
    r \o secs[cat] \o (IF sep THEN <<Sep>> ELSE << >>)

\* result.extend(sections[cat]), and result.append('') when sep and non-empty
Emit(r, secs, cat, sep) ==
    r \o secs[cat] \o (IF sep /\ secs[cat] # << >> THEN <<Sep>> ELSE << >>)

\* EmitPlan with the events emitted before the custom errors
EmitPlan_EventsFirst ==
    << <<"spdx_pragma", TRUE>>, <<"imports", TRUE>>,
       <<"contract_declaration", FALSE>>, <<"enums", TRUE>>,
       <<"structs", TRUE>>, <<"constants", TRUE>>, <<"immutables", TRUE>>,
       <<"state_vars", TRUE>>, <<"events", TRUE>>, <<"custom_errors", TRUE>>,
       <<"modifiers", TRUE>>, <<"constructor", TRUE>>,
       <<"receive_fallback", TRUE>>, <<"external_functions", TRUE>>,
       <<"public_functions", TRUE>>, <<"internal_functions", TRUE>>,
       <<"private_functions", TRUE>>, <<"other", FALSE>> >>

\* EmitPlan with an empty line after the contract declaration as well
EmitPlan_SepAfterContract ==
    << <<"spdx_pragma", TRUE>>, <<"imports", TRUE>>,
       <<"contract_declaration", TRUE>>, <<"enums", TRUE>>,
       <<"structs", TRUE>>, <<"constants", TRUE>>, <<"immutables", TRUE>>,
       <<"state_vars", TRUE>>, <<"custom_errors", TRUE>>, <<"events", TRUE>>,
       <<"modifiers", TRUE>>, <<"constructor", TRUE>>,
       <<"receive_fallback", TRUE>>, <<"external_functions", TRUE>>,
       <<"public_functions", TRUE>>, <<"internal_functions", TRUE>>,
       <<"private_functions", TRUE>>, <<"other", FALSE>> >>

\* the emission steps in the order of the code
EmitPlan ==
    << <<"spdx_pragma", TRUE>>, <<"imports", TRUE>>,
       <<"contract_declaration", FALSE>>, <<"enums", TRUE>>,
       <<"structs", TRUE>>, <<"constants", TRUE>>, <<"immutables", TRUE>>,
       <<"state_vars", TRUE>>, <<"custom_errors", TRUE>>, <<"events", TRUE>>,
       <<"modifiers", TRUE>>, <<"constructor", TRUE>>,
       <<"receive_fallback", TRUE>>, <<"external_functions", TRUE>>,
       <<"public_functions", TRUE>>, <<"internal_functions", TRUE>>,
       <<"private_functions", TRUE>>, <<"other", FALSE>> >>

RECURSIVE EmitAll(_, _, _)
EmitAll(r, secs, k) ==
    IF k > Len(EmitPlan) THEN r
    ELSE EmitAll(Emit(r, secs, EmitPlan[k][1], EmitPlan[k][2]), secs, k + 1)

Reassemble ==
    /\ pc = "parsed"
    /\ result' = EmitAll(<< >>, sections, 1)
    /\ pc' = "done"
    /\ UNCHANGED <<lines, i, brace_count, in_contract, sections, pass, first,
                   runs, dispatched, pairs, nxt, issues>>

\* the text of an entry of result
TextOf(e) == IF e = Sep THEN Blank ELSE lines[e + 1]
ResultText == [k \in 1..Len(result) |-> TextOf(result[k])]

\* '\n'.join(result) followed by split('\n'): the empty list joins to the
\* empty string, which splits into one empty line
JoinSplit(r) == IF r = << >> THEN <<Blank>> ELSE r

\* reorder_solidity_file applied to its own output
RunAgain ==
    /\ pc = "done"
    /\ pass < runs
    /\ lines' = JoinSplit(ResultText)
    /\ first' = ResultText
    /\ pass' = pass + 1
    /\ i' = 0
    /\ brace_count' = 0
    /\ in_contract' = FALSE
    /\ sections' = EmptySections
    /\ result' = << >>
    /\ dispatched' = << >>
    /\ pc' = "scan"
    /\ UNCHANGED <<runs, pairs, nxt, issues>>

Next ==
    \/ SpdxPragma \/ Imports \/ ContractDeclaration \/ NotInContract
    \/ Enums \/ Structs \/ CustomErrors \/ Events \/ Modifiers \/ Constructor
    \/ ReceiveFallback \/ Functions \/ Constants \/ Immutables \/ StateVars
    \/ Other \/ Return \/ Reassemble \/ RunAgain

-----------------------------------------------------------------------------
(* Inputs *)

L_spdx == <<"//", "SPDX-License-Identifier:", "MIT">>
L_pragma == <<"pragma", "solidity", "^0.8.0", ";">>
L_import == <<"import", "A.sol", ";">>
L_contract == <<"contract", "Foo", "{">>
L_enum == <<"  ", "enum", "E", "{", "A", "}">>
L_struct == <<"struct", "S", "{">>
L_error == <<"error", "Bad", "(", ")", ";">>
L_event == <<"event", "Deposit", "(", "uint256", ")", ";">>
L_eventOpen == <<"event", "Deposit", "(">>
L_modA == <<"modifier", "a", "(", ")", "{", "_", ";", "}">>
L_modB == <<"modifier", "b", "(", ")", "{", "_", ";", "}">>
L_ctor == <<"constructor", "(", ")", "{", "}">>
L_receive == <<"receive", "(", ")", "external", "payable", "{", "}">>
L_bar == <<"  ", "function", "bar", "(", ")", "external", "{", "}">>
L_baz == <<"function", "baz", "(", ")", "{", "}">>
L_fOpen == <<"function", "f", "(", ")", "{">>
L_cap == <<"function", "publicCap", "(", ")", "constant", "{", "}">>
L_const == <<"uint256", "public", "constant", "X", "=", "1", ";">>
L_imm == <<"address", "immutable", "owner", ";">>
L_x == <<"  ", "uint256", "public", "x", ";">>
L_y == <<"uint256", "private", "y", ";">>
L_close == <<"}">>
L_note == <<"//", "note">>

\* lines met before and around a contract
TopAlphabet ==
    {L_pragma, L_import, L_contract, L_bar, L_x, L_close, Blank, L_note}

\* lines met inside a contract body
BodyAlphabet ==
    {L_enum, L_error, L_event, L_modA, L_modB, L_ctor, L_bar, L_baz, L_cap,
     L_fOpen, L_const, L_imm, L_x, L_y, L_close}

\* the non-empty texts of at most n lines over the alphabet A
Texts(A, n) == UNION {[1..k -> A] : k \in 1..n}

\* a contract declaration followed by a body of at most n lines
Contracts(A, n) == {<<L_contract>> \o t : t \in Texts(A, n)}

Inputs(n) == Texts(TopAlphabet, n) \cup Contracts(BodyAlphabet, n)

\* Scenario A of the specification
ScenarioA == <<L_spdx, L_pragma, Blank, L_contract, L_bar, L_x, L_close>>

\* a file with a declaration of every kind
Sample ==
    <<L_spdx, L_import, L_note, L_contract, L_const, L_imm, L_y, L_note,
      L_close, L_enum, L_modA, L_ctor, L_receive, L_struct, L_x, L_close,
      L_error, L_note, L_event, L_x, L_cap, L_y, L_fOpen, L_x, L_close,
      L_eventOpen>>

\* a file with a stray brace before its contract and a declaration after it
Trailing == <<L_close, L_contract, L_x, L_close, L_y>>

InitWith(inputs, n) ==
    /\ lines \in inputs
    /\ runs = n
    /\ i = 0
    /\ brace_count = 0
    /\ in_contract = FALSE
    /\ sections = EmptySections
    /\ result = << >>
    /\ pc = "scan"
    /\ pass = 1
    /\ first = << >>
    /\ dispatched = << >>
    /\ pairs = << >>
    /\ nxt = 0
    /\ issues = << >>

\* one application to every enumerated input, two to the sample files
Init ==
    \/ InitWith(Inputs(MaxLines) \cup {Trailing}, 1)
    \/ InitWith({ScenarioA, Sample}, 2)

Spec == Init /\ [][Next]_vars

\* declarations written on one line, braces balanced
Declarations ==
    {L_enum, L_error, L_event, L_modA, L_ctor, L_bar, L_baz, L_const, L_imm,
     L_x, L_y}

\* a pragma, and a contract closed by `}` with at most n declarations
WellFormed(n) ==
    {<<L_pragma, L_contract>> \o t \o <<L_close>> : t \in Texts(Declarations, n)}

\* two applications in a row, to well-formed files
InitTwice == InitWith(WellFormed(MaxLines) \cup {ScenarioA, Sample}, 2)

SpecTwice == InitTwice /\ [][Next]_vars

\* the scan under fairness: the interpreter always takes the next step
InitFair == InitWith(Inputs(MaxLinesSmall) \cup {Sample}, 1) \/ InitWith({Sample}, 2)

FairSpec == InitFair /\ [][Next]_vars /\ WF_vars(Next)

-----------------------------------------------------------------------------
(* check_solutions.py: remove_comments, extract_declarations, main *)

\* the line break of a file's content
NL == "\n"

\* a path with the text of the file there, and a path with no file
File(text) == [exists |-> TRUE, text |-> text]
NoFile == [exists |-> FALSE, text |-> << >>]

\* a user file with the solution file find_solution_file returned for it,
\* and a user file for which it returned None
Pair(user, sol) == [user |-> user, found |-> TRUE, sol |-> sol]
Unpaired(user) == [user |-> user, found |-> FALSE, sol |-> NoFile]

\* f.read(): the content, the lines joined by line breaks
RECURSIVE Content(_)
Content(text) ==
    IF Len(text) = 0 THEN << >>
    ELSE IF Len(text) = 1 THEN text[1]
    ELSE text[1] \o <<NL>> \o Content(Tail(text))

\* whitespace for \s: indentation and line breaks
IsSpace(tok) == tok \in WS \cup {NL}

\* re.sub(r'//.*?$', '', content, flags=re.MULTILINE), from token k on;
\* inside is TRUE after a `//` of the line
RECURSIVE RemoveLineComments(_, _, _)
RemoveLineComments(t, k, inside) ==
    IF k > Len(t) THEN << >>
    ELSE IF t[k] = NL THEN <<NL>> \o RemoveLineComments(t, k + 1, FALSE)
    ELSE IF inside \/ t[k] \in PrefixComment THEN RemoveLineComments(t, k + 1, TRUE)
    ELSE <<t[k]>> \o RemoveLineComments(t, k + 1, FALSE)

\* re.sub(r'/\*.*?\*/', '', content, flags=re.DOTALL), from token k on
RECURSIVE RemoveBlockComments(_, _)
RemoveBlockComments(t, k) ==
    IF k > Len(t) THEN << >>
    ELSE LET ends == {j \in (k + 1)..Len(t) : t[j] = "*/"}
         IN  IF t[k] = "/*" /\ ends # {}
             THEN RemoveBlockComments(t, Min(ends) + 1)
             ELSE <<t[k]>> \o RemoveBlockComments(t, k + 1)

remove_comments(content) ==
    RemoveBlockComments(RemoveLineComments(content, 1, FALSE), 1)

\* the first token at or after k that \s* does not take (Len + 1 if none)
RECURSIVE SkipSpace(_, _)
SkipSpace(t, k) ==
    IF k <= Len(t) /\ IsSpace(t[k]) THEN SkipSpace(t, k + 1) ELSE k

\* ^ under re.MULTILINE
LineStart(t, s) == s = 1 \/ (s <= Len(t) + 1 /\ t[s - 1] = NL)

NoMatch == [ok |-> FALSE, name |-> "", end |-> 0]

\* the match of a declaration pattern that starts at s:
\*   function: ^\s*function\s+(\w+)\s*\([^)]*\)\s*(public|external|internal|private)?
\*   event:    ^\s*event\s+(\w+)\s*\([^)]*\)
\*   struct:   ^\s*struct\s+(\w+)\s*\{
\* end is the first token after the match
MatchAt(t, s, kw) ==
    LET a == SkipSpace(t, s)
        b == SkipSpace(t, a + 1)
        c == SkipSpace(t, b + 1)
        closes == {j \in (c + 1)..Len(t) : t[j] = ")"}
        d == Min(closes)
        e == SkipSpace(t, d + 1)
    IN  IF ~(LineStart(t, s) /\ a <= Len(t) /\ t[a] = kw
             /\ b <= Len(t) /\ t[b] \in WordOnly /\ c <= Len(t))
        THEN NoMatch
        ELSE IF kw = "struct"
        THEN IF t[c] = "{" THEN [ok |-> TRUE, name |-> t[b], end |-> c + 1]
             ELSE NoMatch
        ELSE IF ~(t[c] \in PrefixParen /\ closes # {}) THEN NoMatch
        ELSE IF kw = "event" THEN [ok |-> TRUE, name |-> t[b], end |-> d + 1]
        ELSE IF e <= Len(t) /\ t[e] \in PrefixVisibility \cup {"external"}
        THEN [ok |-> TRUE, name |-> t[b], end |-> e + 1]
        ELSE [ok |-> TRUE, name |-> t[b], end |-> e]

\* re.finditer: the names of the matches found from position pos on, each
\* search starting where the match before ended
RECURSIVE FindAll(_, _, _)
FindAll(t, pos, kw) ==
    LET starts == {s \in pos..Len(t) : MatchAt(t, s, kw).ok}
    IN  IF starts = {} THEN {}
        ELSE LET m == MatchAt(t, Min(starts), kw)
             IN  {m.name} \cup FindAll(t, m.end, kw)

FunctionDenyList == {"visibility", "require", "revert"}
EventDenyList == {"data", "revert"}

NoDeclarations == [functions |-> {}, events |-> {}, structs |-> {}]

\* extract_declarations(file_path)
extract_declarations(file) ==
    IF ~file.exists THEN NoDeclarations
    ELSE LET content == remove_comments(Content(file.text))
         IN  [functions |-> FindAll(content, 1, "function") \ FunctionDenyList,
              events |-> FindAll(content, 1, "event") \ EventDenyList,
              structs |-> FindAll(content, 1, "struct")]

\* Missing with the operands of the differences exchanged
Missing_Reversed(user_decls, sol_decls) ==
    [missing_events |-> sol_decls.events \ user_decls.events,
     missing_funcs |-> sol_decls.functions \ user_decls.functions,
     missing_structs |-> sol_decls.structs \ user_decls.structs]

\* the three differences main computes for a pair
Missing(user_decls, sol_decls) ==
    [missing_events |-> user_decls.events \ sol_decls.events,
     missing_funcs |-> user_decls.functions \ sol_decls.functions,
     missing_structs |-> user_decls.structs \ sol_decls.structs]

\* `if not solution_file: continue`
SkipPair ==
    /\ pc = "compare"
    /\ nxt < Len(pairs)
    /\ ~pairs[nxt + 1].found
    /\ nxt' = nxt + 1
    /\ UNCHANGED <<lines, i, brace_count, in_contract, sections, result, pc,
                   pass, first, runs, dispatched, pairs, issues>>

\* one iteration of `for user_file in user_files` with a solution file
ComparePair ==
    /\ pc = "compare"
    /\ nxt < Len(pairs)
    /\ pairs[nxt + 1].found
    /\ LET m == Missing(extract_declarations(pairs[nxt + 1].user),
                        extract_declarations(pairs[nxt + 1].sol))
       IN  issues' =
               IF m.missing_events # {} \/ m.missing_funcs # {} \/ m.missing_structs # {}
               THEN Append(issues, [file |-> nxt + 1] @@ m)
               ELSE issues
    /\ nxt' = nxt + 1
    /\ UNCHANGED <<lines, i, brace_count, in_contract, sections, result, pc,
                   pass, first, runs, dispatched, pairs>>

\* the loops end and main reports the issues
Report ==
    /\ pc = "compare"
    /\ nxt = Len(pairs)
    /\ pc' = "reported"
    /\ UNCHANGED <<lines, i, brace_count, in_contract, sections, result, pass,
                   first, runs, dispatched, pairs, nxt, issues>>

NextCompare == SkipPair \/ ComparePair \/ Report

C_withdraw == <<"function", "withdraw", "(", ")", "public", "{", "}">>
C_commented == <<"//", "event", "Deposit", "(", "uint256", ")", ";">>
C_require == <<"function", "require", "(", ")">>
C_data == <<"event", "data", "(", ")", ";">>
C_asEvent == <<"event", "withdraw", "(", ")", ";">>
C_inline == <<"}", "function", "f", "(", ")", ";">>
C_indented == <<"  ", "function", "bar", "(", ")", ";">>
C_bazOpen == <<"function", "baz", "(">>
C_param == <<"uint256", "x", ")">>
C_open == <<"/*">>
C_shut == <<"*/", "struct", "S", "{">>

\* the lines of the user files and of the solution files
UserAlphabet ==
    {L_event, C_withdraw, L_struct, C_indented}
SolutionAlphabet ==
    {L_event, C_withdraw, C_commented, C_open, C_shut}

\* Scenario C of the specification
ScenarioC == Pair(File(<<L_event, C_withdraw>>), File(<<C_withdraw>>))

\* a project with six user files: Scenario C, one without a solution file,
\* one that is gone when it is opened, one with the declarations of its
\* solution, one with names of the deny-lists, one whose solution declares
\* its function name as an event
SamplePairs ==
    <<ScenarioC,
      Unpaired(File(<<L_struct>>)),
      Pair(NoFile, File(<<L_struct, L_event>>)),
      Pair(File(<<C_open, L_event, C_shut>>), File(<<L_struct>>)),
      Pair(File(<<C_data, C_require, L_event>>), File(<<C_data>>)),
      Pair(File(<<C_bazOpen, C_param, C_withdraw>>), File(<<C_inline, C_asEvent>>))>>

UserFiles == {File(t) : t \in Texts(UserAlphabet, MaxFile)} \cup {NoFile}
SolutionFiles == {File(t) : t \in Texts(SolutionAlphabet, MaxFile)} \cup {NoFile}

InitCompare ==
    /\ pairs \in
           {<<Pair(u, v)>> : u \in UserFiles, v \in SolutionFiles}
           \cup {<<Unpaired(u)>> : u \in UserFiles}
           \cup {SamplePairs}
    /\ nxt = 0
    /\ issues = << >>
    /\ pc = "compare"
    /\ lines = <<Blank>>
    /\ runs = 1
    /\ i = 0
    /\ brace_count = 0
    /\ in_contract = FALSE
    /\ sections = EmptySections
    /\ result = << >>
    /\ pass = 1
    /\ first = << >>
    /\ dispatched = << >>

SpecCompare == InitCompare /\ [][NextCompare]_vars

-----------------------------------------------------------------------------
(* Vocabulary of the properties *)

Done == pc = "done"
Indices == 0..(Len(lines) - 1)

\* the places (category, position) where the line index k is stored
Places(k) ==
    {<<c, p>> \in Categories \X (1..Len(lines)) :
        p <= Len(sections[c]) /\ sections[c][p] = k}

\* the category holding the line index k
CatOf(k) == CHOOSE c \in Categories : \E p \in 1..Len(sections[c]) : sections[c][p] = k

\* the position of the line index k in the output
PosOf(k) == CHOOSE p \in 1..Len(result) : result[p] = k

\* the positions of the output that hold the lines of category c
PosOfCat(c) == {p \in 1..Len(result) : result[p] # Sep /\ CatOf(result[p]) = c}

\* the multiset of the elements of a sequence
BagOfSeq(s) ==
    [t \in {s[k] : k \in 1..Len(s)} |-> Cardinality({k \in 1..Len(s) : s[k] = t})]

IsBlankLine(t) == strip(t) = << >>
NonBlank(s) == SelectSeq(s, LAMBDA t : ~IsBlankLine(t))

\* the fixed order of the categories, as the specification lists it
CanonicalOrder ==
    <<"spdx_pragma", "imports", "contract_declaration", "enums", "structs",
      "constants", "immutables", "state_vars", "custom_errors", "events",
      "modifiers", "constructor", "receive_fallback", "external_functions",
      "public_functions", "internal_functions", "private_functions", "other">>

RankOf(c) == CHOOSE r \in 1..Len(CanonicalOrder) : CanonicalOrder[r] = c

-----------------------------------------------------------------------------
(* C1 *)

\* C1 as stated: the multiset of the lines of the output equals the multiset
\* of the lines of the input (no line created, duplicated or dropped).
C1_LineConservation == Done => BagOfSeq(ResultText) = BagOfSeq(lines)

\* C1 amended: every non-empty line occurs in the output as many times as in
\* the input, and the output has at least as many empty lines as the input:
\* no line is duplicated or dropped, and the only lines created are empty.
C1_LineConservationModuloEmpty ==
    Done =>
        LET out == BagOfSeq(ResultText)
            inp == BagOfSeq(lines)
        IN  /\ \A t \in (DOMAIN out \cup DOMAIN inp) \ {Blank} :
                   CopiesIn(t, out) = CopiesIn(t, inp)
            /\ CopiesIn(Blank, out) >= CopiesIn(Blank, inp)

\* a run that moved a line before an earlier one and inserted a separator
C1_Witness ==
    /\ Done
    /\ \E p, q \in 1..Len(result) :
           p < q /\ result[q] # Sep /\ result[p] > result[q]
    /\ \E p \in 1..Len(result) : result[p] = Sep

-----------------------------------------------------------------------------
(* C2 *)

\* C2: when parse_solidity_file returns, every line index of the input is
\* stored in exactly one category, exactly once, and nothing else is stored.
C2_Partition ==
    pc = "parsed" =>
        /\ \A k \in Indices : Cardinality(Places(k)) = 1
        /\ \A c \in Categories : \A p \in 1..Len(sections[c]) :
               sections[c][p] \in Indices

\* a scan in which a block continued over a line, a semicolon-terminated
\* declaration continued over a line, and another one met the end of input
C2_Witness ==
    /\ pc = "parsed"
    /\ \E d \in 1..Len(dispatched) :
           /\ dispatched[d].rule \in {"enums", "structs", "modifiers", "constructor"}
           /\ dispatched[d].next > dispatched[d].idx + 1
    /\ \E d \in 1..Len(dispatched) :
           /\ dispatched[d].rule \in {"custom_errors", "events"}
           /\ dispatched[d].next > dispatched[d].idx + 1
    /\ \E d \in 1..Len(dispatched) : dispatched[d].rule = "state_vars"
    /\ i > Len(lines)

-----------------------------------------------------------------------------
(* C3 *)

\* C3: of two source lines of the output, the earlier one is in the same
\* category and was earlier in the input, or is in a category that comes
\* strictly before in the fixed order.
C3_CategoryOrder ==
    Done =>
        \A p, q \in 1..Len(result) :
            (p < q /\ result[p] # Sep /\ result[q] # Sep) =>
                LET c1 == CatOf(result[p])
                    c2 == CatOf(result[q])
                IN  \/ c1 = c2 /\ result[p] < result[q]
                    \/ RankOf(c1) < RankOf(c2)

\* an output with lines of four categories or more, one of them moved
C3_Witness ==
    /\ Done
    /\ Cardinality({c \in Categories : sections[c] # << >>}) >= 4
    /\ \E p, q \in 1..Len(result) :
           p < q /\ result[q] # Sep /\ result[p] > result[q]

-----------------------------------------------------------------------------
(* C4 *)

\* the depth a parser would see before line k: braces opened and not closed
RECURSIVE TrueDepth(_)
TrueDepth(k) == IF k = 0 THEN 0 ELSE TrueDepth(k - 1) + BraceDelta(lines[k])

\* line k declares `function bar() external {}` directly in the body of a
\* contract opened by `contract Foo {`, and line k+1 declares `uint256 public x;`
BarThenX(k) ==
    /\ k + 1 \in Indices
    /\ strip(lines[k + 1]) = strip(L_bar)
    /\ strip(lines[k + 2]) = strip(L_x)
    /\ TrueDepth(k) = 1
    /\ \E c \in 0..(k - 1) :
           /\ lines[c + 1] = L_contract
           /\ \A m \in (c + 1)..k : TrueDepth(m) >= 1

\* C4: in that case the x line is a state variable, the bar line an external
\* function, the x line comes before the bar line in the output, and the
\* header lines come first.
C4_ScenarioA ==
    (Done /\ pass = 1) =>
        \A k \in Indices :
            BarThenX(k) =>
                /\ CatOf(k + 1) = "state_vars"
                /\ CatOf(k) = "external_functions"
                /\ PosOf(k + 1) < PosOf(k)
                /\ \A h \in PosOfCat("spdx_pragma") : h <= Len(sections["spdx_pragma"])

-----------------------------------------------------------------------------
(* C5 *)

\* the input is a contract whose body is two modifier blocks and one
\* constructor block in some order, closed or not by `}`
TwoModifiersOneConstructor ==
    /\ Len(lines) \in {4, 5}
    /\ lines[1] = L_contract
    /\ {k \in 2..4 : lines[k] = L_modA} # {}
    /\ {k \in 2..4 : lines[k] = L_modB} # {}
    /\ {k \in 2..4 : lines[k] = L_ctor} # {}
    /\ Len(lines) = 5 => lines[5] = L_close

\* C5: then the constructor line is classified constructor, the modifier
\* lines are classified modifier, and the output shows the two modifiers in
\* their original order, the separator, and then the constructor.
C5_ScenarioB ==
    (Done /\ pass = 1 /\ TwoModifiersOneConstructor) =>
        LET ctor == CHOOSE k \in 1..3 : lines[k + 1] = L_ctor
            mods == {k \in 1..3 : lines[k + 1] \in {L_modA, L_modB}}
        IN  /\ CatOf(ctor) = "constructor"
            /\ \A m \in mods : CatOf(m) = "modifiers"
            /\ sections["modifiers"] = <<Min(mods), Max(mods)>>
            /\ PosOf(Max(mods)) = PosOf(Min(mods)) + 1
            /\ PosOf(ctor) = PosOf(Max(mods)) + 2

-----------------------------------------------------------------------------
(* C6 *)

\* C6: the second application gives the non-blank lines the first one gave,
\* in the same order.
C6_Idempotence ==
    (Done /\ pass = 2) => NonBlank(ResultText) = NonBlank(first)

-----------------------------------------------------------------------------
(* C7 *)

\* the categories that have lines
NonEmpty == {c \in Categories : sections[c] # << >>}

\* the lines of category c are in the output, in a row, followed by exactly
\* one separator
OneSeparatorAfter(c) ==
    LET last == Max(PosOfCat(c))
    IN  /\ SubSeq(result, last - Len(sections[c]) + 1, last) = sections[c]
        /\ last < Len(result)
        /\ result[last + 1] = Sep
        /\ last + 2 <= Len(result) => result[last + 2] # Sep

\* the lines of category c are in the output, in a row, with no separator
NoSeparatorAfter(c) ==
    LET last == Max(PosOfCat(c))
    IN  /\ SubSeq(result, last - Len(sections[c]) + 1, last) = sections[c]
        /\ last < Len(result) => result[last + 1] # Sep

Separators == {p \in 1..Len(result) : result[p] = Sep}

\* C7 as stated: every non-empty category but the last, uncategorized, is
\* followed by exactly one inserted empty line, and an empty category adds
\* no line.
C7_EmissionRule ==
    Done =>
        /\ \A c \in NonEmpty \ {"other"} : OneSeparatorAfter(c)
        /\ Cardinality(Separators) = Cardinality(NonEmpty \ {"other"})

\* C7 amended: every non-empty category but contract-declaration and
\* uncategorized is followed by exactly one inserted empty line; the lines
\* of contract-declaration and of uncategorized are followed by none; an
\* empty category adds no line.
C7_EmissionRuleButContract ==
    Done =>
        /\ \A c \in NonEmpty \ {"contract_declaration", "other"} :
               OneSeparatorAfter(c)
        /\ \A c \in NonEmpty \cap {"contract_declaration", "other"} :
               NoSeparatorAfter(c)
        /\ Cardinality(Separators) =
               Cardinality(NonEmpty \ {"contract_declaration", "other"})

\* an output with a header, a contract declaration, two more categories and
\* uncategorized lines
C7_Witness ==
    /\ Done
    /\ {"spdx_pragma", "contract_declaration", "other"} \subseteq NonEmpty
    /\ Cardinality(NonEmpty) >= 5
    /\ Cardinality(NonEmpty) < Cardinality(Categories)

-----------------------------------------------------------------------------
(* C8 *)

VisibilityWords == {"external", "public", "internal", "private"}

\* the last line of the declaration opened on line k: the line on which
\* the braces opened since line k are closed (the end of input failing that)
RECURSIVE DeclEnd(_, _)
DeclEnd(k, open) ==
    LET now == open + BraceDelta(lines[k + 1])
    IN  IF now <= 0 \/ k + 1 >= Len(lines) THEN k ELSE DeclEnd(k + 1, now)

\* C8: a function declaration whose text has none of the four visibility
\* words has all its lines in public-function.
C8_VisibilityDefault ==
    (Done /\ pass = 1) =>
        \A d \in 1..Len(dispatched) :
            LET k == dispatched[d].idx
                decl == k..DeclEnd(k, 0)
            IN  (/\ dispatched[d].rule = "functions"
                 /\ \A m \in decl : \A w \in VisibilityWords : ~HasSub(lines[m + 1], w))
                => \A m \in decl : CatOf(m) = "public_functions"

-----------------------------------------------------------------------------
(* C9 *)

\* the tests of the rules the scanner evaluates before the constant rule
MatchesEarlierRule(s) ==
    \/ IsSpdxPragma(s) \/ IsImport(s) \/ IsContractDecl(s)
    \/ \E kw \in {"enum", "struct", "error", "event", "modifier", "function"} :
           IsKeywordName(s, kw)
    \/ \E kw \in {"constructor", "receive", "fallback"} : IsKeywordParen(s, kw)

\* a line the scanner dispatched inside the contract body that holds
\* `constant`, is no comment and has the shape of a state variable
ConstantAndStateVar(d) ==
    LET s == strip(lines[dispatched[d].idx + 1])
    IN  /\ dispatched[d].inC
        /\ HasSub(s, "constant")
        /\ ~IsComment(s)
        /\ IsStateVarShape(s)

\* C9 as stated: such a line is put in constant.
C9_ConstantWins ==
    \A d \in 1..Len(dispatched) :
        ConstantAndStateVar(d) => CatOf(dispatched[d].idx) = "constants"

\* C9 amended: such a line is never put in state-variable, and it is put in
\* constant unless it matches a rule evaluated before the constant rule
\* (header, import, contract declaration, enum, struct, error, event,
\* modifier, constructor, receive/fallback, function).
C9_ConstantWinsOverStateVar ==
    \A d \in 1..Len(dispatched) :
        ConstantAndStateVar(d) =>
            /\ CatOf(dispatched[d].idx) # "state_vars"
            /\ ~MatchesEarlierRule(strip(lines[dispatched[d].idx + 1]))
                   => CatOf(dispatched[d].idx) = "constants"

\* `uint256 public constant X = 1;` was dispatched in a contract body
C9_Witness ==
    \E d \in 1..Len(dispatched) :
        /\ ConstantAndStateVar(d)
        /\ lines[dispatched[d].idx + 1] = L_const
        /\ dispatched[d].rule = "constants"

-----------------------------------------------------------------------------
(* C10 *)

\* no test of the scanner holds of the line
MatchesNoRule(s) ==
    /\ ~MatchesEarlierRule(s)
    /\ ~(HasSub(s, "constant") /\ ~IsComment(s))
    /\ ~(HasSub(s, "immutable") /\ ~IsComment(s))
    /\ ~IsStateVarShape(s)

\* the document returned has the 18 categories, and the lines the scanner
\* dispatched that match no rule are in uncategorized
ReturnsDocument ==
    pc = "parsed" =>
        /\ DOMAIN sections = {CanonicalOrder[r] : r \in 1..Len(CanonicalOrder)}
        /\ Cardinality(DOMAIN sections) = 18
        /\ \A d \in 1..Len(dispatched) :
               MatchesNoRule(strip(lines[dispatched[d].idx + 1]))
                   => CatOf(dispatched[d].idx) = "other"

\* C10: the scan of every input ends with the classifier returning; every
\* iteration of the outer loop advances the line index by one or more; the
\* document returned has all 18 categories, a line that matches no rule
\* being in uncategorized.
C10_Terminates ==
    /\ (pc = "scan") ~> (pc = "parsed")
    /\ [][(pc = "scan" /\ pc' = "scan") => i' >= i + 1]_vars
    /\ []ReturnsDocument

\* the classifier returned with a brace still open, a declaration that met
\* the end of input before its semicolon, and a line that matched no rule
C10_Witness ==
    /\ pc = "parsed"
    /\ brace_count > 0
    /\ i > Len(lines)
    /\ \E d \in 1..Len(dispatched) :
           /\ dispatched[d].inC
           /\ MatchesNoRule(strip(lines[dispatched[d].idx + 1]))

\* the classifier returned on the empty input
C10_WitnessEmpty == pc = "parsed" /\ lines = <<Blank>>

-----------------------------------------------------------------------------
(* C11 *)

\* the issues main recorded for the pair q
IssuesOf(q) == {k \in 1..Len(issues) : issues[k].file = q}

\* the names of a kind reported for the pair q are the names extracted from
\* the user file that are not extracted from the solution file
ReportsDifference(q, field, kind) ==
    LET user_names == extract_declarations(pairs[q].user)[kind]
        sol_names == extract_declarations(pairs[q].sol)[kind]
    IN  \A k \in IssuesOf(q) :
            /\ \A n \in user_names : n \in issues[k][field] <=> n \notin sol_names
            /\ issues[k][field] \subseteq user_names

\* some name of some kind is extracted from the user file of q and not from
\* its solution file
SomeMissing(q) ==
    \E kind \in {"events", "functions", "structs"} :
        \E n \in extract_declarations(pairs[q].user)[kind] :
            n \notin extract_declarations(pairs[q].sol)[kind]

\* C11: for every pair main went through, the three sets reported are the
\* differences, per kind, of the names extracted from the user file and
\* from the solution file (so a name in both is not reported); a file that
\* does not exist gives empty sets; the pair is an issue, once, exactly when
\* a difference is non-empty; Scenario C reports the event Deposit only.
C11_Comparator ==
    \A q \in 1..nxt :
        /\ ReportsDifference(q, "missing_events", "events")
        /\ ReportsDifference(q, "missing_funcs", "functions")
        /\ ReportsDifference(q, "missing_structs", "structs")
        /\ Cardinality(IssuesOf(q)) = IF pairs[q].found /\ SomeMissing(q) THEN 1 ELSE 0
        /\ ~pairs[q].user.exists => IssuesOf(q) = {}
        /\ (pairs[q].found /\ ~pairs[q].sol.exists) =>
               \A k \in IssuesOf(q) :
                   /\ issues[k].missing_events = extract_declarations(pairs[q].user).events
                   /\ issues[k].missing_funcs = extract_declarations(pairs[q].user).functions
                   /\ issues[k].missing_structs = extract_declarations(pairs[q].user).structs
        /\ pairs[q] = ScenarioC =>
               \E k \in IssuesOf(q) :
                   /\ issues[k].missing_events = {"Deposit"}
                   /\ issues[k].missing_funcs = {}
                   /\ issues[k].missing_structs = {}

\* main reported Scenario C: the event Deposit is missing, the function
\* withdraw, declared in both files, is not
C11_Witness ==
    /\ pc = "reported"
    /\ \E q \in 1..Len(pairs) :
           /\ pairs[q] = ScenarioC
           /\ \E k \in IssuesOf(q) : issues[k].missing_events = {"Deposit"}
           /\ "withdraw" \in extract_declarations(pairs[q].user).functions
           /\ "withdraw" \in extract_declarations(pairs[q].sol).functions

-----------------------------------------------------------------------------
(* C12 *)

BlockRules ==
    {"enums", "structs", "modifiers", "constructor", "receive_fallback",
     "functions"}

\* the lines the scanner took for the construct of the dispatch d
Taken(d) == dispatched[d].idx..(Min({dispatched[d].next, Len(lines)}) - 1)

\* C12: a block-scoped construct whose opening line is dispatched at depth d
\* takes the lines from its opening line up to and including the line on
\* which the depth returns to d (the end of input failing that), and no
\* further.
C12_BlockExtent ==
    \A d \in 1..Len(dispatched) :
        dispatched[d].rule \in BlockRules =>
            Taken(d) = dispatched[d].idx..DeclEnd(dispatched[d].idx, 0)

-----------------------------------------------------------------------------
(* C13 *)

SemiRules == {"custom_errors", "events"}

\* the first line from k on whose stripped form ends with `;` (the end of
\* input failing that)
RECURSIVE SemiEnd(_)
SemiEnd(k) ==
    IF EndsSemi(lines[k + 1]) \/ k + 1 >= Len(lines) THEN k ELSE SemiEnd(k + 1)

\* C13: an error or event declaration takes the lines from its opening line
\* up to and including the first line, the opening line counted, whose
\* stripped form ends with `;`.
C13_SemicolonExtent ==
    \A d \in 1..Len(dispatched) :
        dispatched[d].rule \in SemiRules =>
            Taken(d) = dispatched[d].idx..SemiEnd(dispatched[d].idx)

-----------------------------------------------------------------------------
(* C14 *)

\* the braces opened minus the braces closed over the lines a..b-1
RECURSIVE Opened(_, _)
Opened(a, b) == IF a >= b THEN 0 ELSE BraceDelta(lines[a + 1]) + Opened(a + 1, b)

\* the dispatches on a contract declaration line
ContractLines == {d \in 1..Len(dispatched) : dispatched[d].rule = "contract_declaration"}

\* C14: each time the scanner dispatches on a line inside the contract body,
\* brace_count is the number of `{` minus the number of `}` over the lines
\* consumed so far from the contract declaration line on.
C14_DepthTracking ==
    \A d \in 1..Len(dispatched) :
        dispatched[d].inC =>
            dispatched[d].depth =
                Opened(dispatched[Min(ContractLines)].idx, dispatched[d].idx)

-----------------------------------------------------------------------------
(* C15 *)

\* the visibility words in the order of their priority
VisibilityOrder == <<"external", "public", "internal", "private">>

FunctionCategory(w) ==
    CASE w = "external" -> "external_functions"
      [] w = "public" -> "public_functions"
      [] w = "internal" -> "internal_functions"
      [] w = "private" -> "private_functions"

\* the word w occurs in the text of some line taken for the dispatch d
Occurs(d, w) == \E k \in Taken(d) : HasSub(lines[k + 1], w)

\* C15: all the lines accumulated for a function are in one category, that
\* of the first of external, public, internal, private that occurs anywhere
\* in the accumulated lines.
C15_VisibilityPriority ==
    \A d \in 1..Len(dispatched) :
        dispatched[d].rule = "functions" =>
            \A p \in 1..Len(VisibilityOrder) :
                (/\ Occurs(d, VisibilityOrder[p])
                 /\ \A q \in 1..(p - 1) : ~Occurs(d, VisibilityOrder[q]))
                => \A k \in Taken(d) : CatOf(k) = FunctionCategory(VisibilityOrder[p])

\* a function whose accumulated lines hold `private` first and `external`
\* on a later line, stored as external
C15_Witness ==
    \E d \in 1..Len(dispatched) :
        /\ dispatched[d].rule = "functions"
        /\ \E k, m \in Taken(d) :
               /\ k < m
               /\ HasSub(lines[k + 1], "private")
               /\ ~HasSub(lines[k + 1], "external")
               /\ HasSub(lines[m + 1], "external")
        /\ \A k \in Taken(d) : CatOf(k) = "external_functions"

-----------------------------------------------------------------------------
(* C16 *)

\* the construct opened by the dispatch d is still open at the end of input:
\* the depth stays positive on every line from the opening line on, or, for
\* an error or an event, no line after the opening line ends with `;`
OpenAtEnd(d) ==
    LET k == dispatched[d].idx
    IN  \/ /\ dispatched[d].rule \in BlockRules
           /\ \A m \in k..(Len(lines) - 1) :
                  dispatched[d].depth + Opened(k, m + 1) > 0
        \/ /\ dispatched[d].rule \in SemiRules
           /\ \A m \in (k + 1)..(Len(lines) - 1) : ~EndsSemi(lines[m + 1])

\* the category of the construct opened by the dispatch d
ConstructCategories(d) ==
    IF dispatched[d].rule = "functions"
    THEN {FunctionCategory(w) : w \in VisibilityWords}
    ELSE {dispatched[d].rule}

\* C16: when the end of input is reached while a construct is still open,
\* every line from its opening line to the last line is stored, once, in
\* the category of the construct, and the scan is over without an error:
\* the loop has nothing left to read and the sections are returned.
C16_MalformedNesting ==
    \A d \in 1..Len(dispatched) :
        OpenAtEnd(d) =>
            /\ d = Len(dispatched)
            /\ \E c \in ConstructCategories(d) :
                   \A k \in dispatched[d].idx..(Len(lines) - 1) :
                       Places(k) \cap ({c} \X (1..Len(lines))) # {}
            /\ \A k \in dispatched[d].idx..(Len(lines) - 1) :
                   Cardinality(Places(k)) = 1
            /\ i >= Len(lines)
            /\ pc \in {"scan", "parsed", "done"}
            /\ pc = "scan" => ENABLED Return

\* a struct of three lines is open when the input ends, and an event whose
\* parameter list is not closed: the scan has returned
C16_Witness ==
    /\ pc = "parsed"
    /\ \E d \in 1..Len(dispatched) :
           /\ OpenAtEnd(d)
           /\ dispatched[d].rule \in {"structs", "functions", "events"}
           /\ dispatched[d].idx < Len(lines) - 1

-----------------------------------------------------------------------------
(* C17 *)

\* the rules in the order of their priority
RuleOrder ==
    <<"header", "import", "contract", "enum", "struct", "error", "event",
      "modifier", "constructor", "receive_fallback", "function", "constant",
      "immutable", "state_variable", "uncategorized">>

\* the stripped line s matches the rule r
Matches(s, r) ==
    CASE r = "header" -> IsSpdxPragma(s)
      [] r = "import" -> IsImport(s)
      [] r = "contract" -> IsContractDecl(s)
      [] r = "enum" -> IsKeywordName(s, "enum")
      [] r = "struct" -> IsKeywordName(s, "struct")
      [] r = "error" -> IsKeywordName(s, "error")
      [] r = "event" -> IsKeywordName(s, "event")
      [] r = "modifier" -> IsKeywordName(s, "modifier")
      [] r = "constructor" -> IsKeywordParen(s, "constructor")
      [] r = "receive_fallback" ->
             IsKeywordParen(s, "receive") \/ IsKeywordParen(s, "fallback")
      [] r = "function" -> IsKeywordName(s, "function")
      [] r = "constant" -> HasSub(s, "constant") /\ ~IsComment(s)
      [] r = "immutable" -> HasSub(s, "immutable") /\ ~IsComment(s)
      [] r = "state_variable" -> IsStateVarShape(s)
      [] r = "uncategorized" -> TRUE

\* the categories that the rule r gives
CategoriesOf(r) ==
    CASE r = "header" -> {"spdx_pragma"}
      [] r = "import" -> {"imports"}
      [] r = "contract" -> {"contract_declaration"}
      [] r = "enum" -> {"enums"}
      [] r = "struct" -> {"structs"}
      [] r = "error" -> {"custom_errors"}
      [] r = "event" -> {"events"}
      [] r = "modifier" -> {"modifiers"}
      [] r = "constructor" -> {"constructor"}
      [] r = "receive_fallback" -> {"receive_fallback"}
      [] r = "function" -> {FunctionCategory(w) : w \in VisibilityWords}
      [] r = "constant" -> {"constants"}
      [] r = "immutable" -> {"immutables"}
      [] r = "state_variable" -> {"state_vars"}
      [] r = "uncategorized" -> {"other"}

\* the first rule, in the order of priority, that the stripped line matches
FirstMatch(s) ==
    RuleOrder[Min({p \in 1..Len(RuleOrder) : Matches(s, RuleOrder[p])})]

\* C17: every line the scanner dispatches on inside the contract body is
\* stored in the category of the first rule it matches in the order of
\* priority, and in no category of a later rule.
C17_FirstMatch ==
    \A d \in 1..Len(dispatched) :
        dispatched[d].inC =>
            LET k == dispatched[d].idx
                s == strip(lines[k + 1])
            IN  /\ CatOf(k) \in CategoriesOf(FirstMatch(s))
                /\ Cardinality(Places(k)) = 1

\* a line matching the function rule and the constant rule was dispatched in
\* the body and stored as a function, and a line matching the constant rule
\* and the state-variable rule was stored as a constant
C17_Witness ==
    /\ \E d \in 1..Len(dispatched) :
           LET s == strip(lines[dispatched[d].idx + 1])
           IN  /\ dispatched[d].inC
               /\ Matches(s, "function") /\ Matches(s, "constant")
               /\ CatOf(dispatched[d].idx) = "public_functions"
    /\ \E d \in 1..Len(dispatched) :
           LET s == strip(lines[dispatched[d].idx + 1])
           IN  /\ dispatched[d].inC
               /\ Matches(s, "constant") /\ Matches(s, "state_variable")
               /\ CatOf(dispatched[d].idx) = "constants"

-----------------------------------------------------------------------------
(* C18 *)

\* the categories after which the reassembler inserts an empty line
Separated == Categories \ {"contract_declaration", "other"}

\* the number of inserted empty lines
InsertedCount == Cardinality({c \in Separated : sections[c] # << >>})

\* the number of occurrences of t in the sequence s
Occurrences(s, t) == Cardinality({k \in 1..Len(s) : s[k] = t})

\* C18: the output is a permutation of the input lines plus k empty lines,
\* k the number of non-empty categories among the 16 categories other than
\* contract-declaration and uncategorized: it has k lines more than the
\* input, k empty lines more, and every other line as often as the input.
C18_PermutationPlusSeparators ==
    Done =>
        /\ Cardinality(Separated) = 16
        /\ Len(ResultText) = Len(lines) + InsertedCount
        /\ Occurrences(ResultText, Blank) = Occurrences(lines, Blank) + InsertedCount
        /\ \A k \in 1..Len(lines) :
               lines[k] # Blank =>
                   Occurrences(ResultText, lines[k]) = Occurrences(lines, lines[k])
        /\ \A k \in 1..Len(ResultText) :
               ResultText[k] # Blank => \E m \in 1..Len(lines) : lines[m] = ResultText[k]

\* an output with three inserted empty lines for an input with an empty
\* line of its own, a contract declaration and an uncategorized line
C18_Witness ==
    /\ Done
    /\ InsertedCount >= 3
    /\ Occurrences(lines, Blank) >= 1
    /\ sections["contract_declaration"] # << >>
    /\ sections["other"] # << >>
    /\ Len(ResultText) = Len(lines) + InsertedCount

-----------------------------------------------------------------------------
(* C19 *)

\* some line before the line index k starts, once stripped, with contract,
\* interface, library or abstract contract
ContractBefore(k) ==
    \E m \in 0..(Min({k, Len(lines)}) - 1) : IsContractDecl(strip(lines[m + 1]))

\* C19: in_contract is false when the scan starts, true from the first line
\* that starts with contract/interface/library/abstract contract on, and
\* never reset, whatever the depth; before it is true the depth stays 0 and
\* a line that is not header, import or contract declaration is stored,
\* alone, in uncategorized; once it is true no line is handled as a line
\* outside a contract: each dispatched line gets the category of the first
\* in-body rule it matches.
C19_InContractMonotone ==
    pc \in {"scan", "parsed", "done"} =>
        /\ in_contract <=> ContractBefore(i)
        /\ ~in_contract => brace_count = 0
        /\ \A d \in 1..Len(dispatched) :
               LET k == dispatched[d].idx
                   s == strip(lines[k + 1])
               IN  /\ dispatched[d].inC <=> ContractBefore(k)
                   /\ \A e \in 1..(d - 1) : dispatched[e].inC => dispatched[d].inC
                   /\ ~dispatched[d].inC =>
                          /\ dispatched[d].depth = 0
                          /\ dispatched[d].next = k + 1
                          /\ CatOf(k) =
                                 IF IsSpdxPragma(s) THEN "spdx_pragma"
                                 ELSE IF IsImport(s) THEN "imports"
                                 ELSE IF IsContractDecl(s) THEN "contract_declaration"
                                 ELSE "other"
                   /\ dispatched[d].inC =>
                          /\ dispatched[d].rule # "not_in_contract"
                          /\ CatOf(k) \in CategoriesOf(FirstMatch(s))

\* after the closing brace of the contract, at depth 0, a state variable
\* declaration is dispatched inside the contract and stored as a state
\* variable; before the contract a line with a brace went to uncategorized
C19_Witness ==
    /\ pc = "parsed"
    /\ in_contract
    /\ \E d \in 1..Len(dispatched) :
           /\ dispatched[d].inC
           /\ dispatched[d].depth = 0
           /\ Opened(dispatched[Min(ContractLines)].idx, dispatched[d].idx) = 0
           /\ dispatched[d].rule = "state_vars"
    /\ \E d \in 1..Len(dispatched) :
           /\ ~dispatched[d].inC
           /\ dispatched[d].rule = "not_in_contract"
           /\ BraceDelta(lines[dispatched[d].idx + 1]) # 0

====
